---- MODULE Spec2Model ----
(***************************************************************************)
(* Preprocessing of a translation unit that includes                       *)
(* SherpaOnnx-Bridging-Header.h.                                           *)
(*                                                                         *)
(* The header is five directives:                                          *)
(*     line  6   #ifndef SHERPAONNX_BRIDGING_HEADER_H_                     *)
(*     line  7   #define SHERPAONNX_BRIDGING_HEADER_H_                     *)
(*     line  9   #import "sherpa-onnx/c-api/c-api.h"                       *)
(*     line 11   #endif                                                    *)
(* The state is the preprocessor's: the macro table, the declarations      *)
(* visible so far, the files already entered (what #import consults), and  *)
(* the position inside the header. One action per directive. The including *)
(* code is the environment: it may define macros (the guard among them),   *)
(* declare names of its own, import c-api.h directly and include the       *)
(* bridging header any number of times. It contains no #undef, as the      *)
(* header contains none.                                                   *)
(*                                                                         *)
(* c-api.h is external and opaque: entering its body makes ApiDecls        *)
(* visible and defines ApiMacros, nothing else is assumed of it.           *)
(***************************************************************************)
EXTENDS Naturals, FiniteSets

VARIABLES
    macros,     \* macro table: name -> Undef, or the replacement text
    decls,      \* declarations visible in the translation unit
    imported,   \* files the preprocessor has entered (consulted by #import)
    bodyCount,  \* times the body of c-api.h has been processed
    pc,         \* "tu" in the including code, else the header line about to be processed
    nIncl,      \* inclusions of the bridging header started so far
    entry,      \* the state at the start of the current (latest) inclusion
    viaBridge   \* the #import of line 9 has been performed

vars == <<macros, decls, imported, bodyCount, pc, nIncl, entry, viaBridge>>

\* Number of times the including code includes the bridging header.
MaxIncludes == 3

\* The guard macro of lines 6, 7 and 11.
Guard == "SHERPAONNX_BRIDGING_HEADER_H_"

\* The file named by the #import of line 9.
CApi == "sherpa-onnx/c-api/c-api.h"

\* What the external header brings in (opaque: names only).
ApiDecls == {"capi_function", "capi_type", "capi_constant"}
ApiMacros == {"CAPI_MACRO"}

\* What the including code may bring in on its own.
UserMacros == {"USER_MACRO"}
UserDecls == {"user_function", "user_type"}

MacroNames == {Guard} \cup UserMacros \cup ApiMacros

\* Macro table entries: not defined, defined with empty replacement (as line 7
\* does), defined with replacement text 1.
Undef == "undefined"
Empty == "empty"
One == "1"
MacroValues == {Empty, One}

Defined(m) == macros[m] # Undef

\* The part of the state an inclusion can be compared on.
Snapshot == [macros |-> macros, decls |-> decls, imported |-> imported,
             bodyCount |-> bodyCount]

TypeOK ==
    /\ macros \in [MacroNames -> {Undef} \cup MacroValues]
    /\ decls \subseteq (ApiDecls \cup UserDecls)
    /\ imported \subseteq {CApi}
    /\ bodyCount \in Nat
    /\ pc \in {"tu", "L6", "L7", "L9", "L11", "EOF"}
    /\ nIncl \in 0..MaxIncludes
    /\ viaBridge \in BOOLEAN

\* Start of the translation unit: nothing defined, declared or entered.
Init ==
    /\ macros = [m \in MacroNames |-> Undef]
    /\ decls = {}
    /\ imported = {}
    /\ bodyCount = 0
    /\ pc = "tu"
    /\ nIncl = 0
    /\ entry = [macros |-> [m \in MacroNames |-> Undef], decls |-> {},
                imported |-> {}, bodyCount |-> 0]
    /\ viaBridge = FALSE

----------------------------------------------------------------------------
(* The including code *)

\* #define m v in the including code (or -D on the command line), for a macro
\* not yet defined; m may be the guard itself.
UserDefine(m, v) ==
    /\ pc = "tu"
    /\ ~Defined(m)
    /\ macros' = [macros EXCEPT ![m] = v]
    /\ UNCHANGED <<decls, imported, bodyCount, pc, nIncl, entry, viaBridge>>

\* A declaration written by the including code.
UserDeclare(d) ==
    /\ pc = "tu"
    /\ d \notin decls
    /\ decls' = decls \cup {d}
    /\ UNCHANGED <<macros, imported, bodyCount, pc, nIncl, entry, viaBridge>>

\* Entering the body of c-api.h: its declarations become visible, its macros
\* are defined, the file is recorded as entered.
EnterCApi ==
    /\ decls' = decls \cup ApiDecls
    /\ macros' = [m \in MacroNames |-> IF m \in ApiMacros THEN Empty ELSE macros[m]]
    /\ imported' = imported \cup {CApi}
    /\ bodyCount' = bodyCount + 1

\* #import "sherpa-onnx/c-api/c-api.h" written by the including code itself
\* (or by another header), not through the bridging header.
UserImport ==
    /\ pc = "tu"
    /\ CApi \notin imported
    /\ EnterCApi
    /\ UNCHANGED <<pc, nIncl, entry, viaBridge>>

\* The including code includes SherpaOnnx-Bridging-Header.h: processing moves
\* to the header's first directive, line 6.
IncludeHeader ==
    /\ pc = "tu"
    /\ nIncl < MaxIncludes
    /\ nIncl' = nIncl + 1
    /\ entry' = Snapshot
    /\ pc' = "L6"
    /\ UNCHANGED <<macros, decls, imported, bodyCount, viaBridge>>

----------------------------------------------------------------------------
(* The header, directive by directive *)

\* #ifdef written for #ifndef.
Ifndef_Inverted ==
    /\ pc = "L6"
    /\ pc' = IF Defined(Guard) THEN "L7" ELSE "L11"
    /\ UNCHANGED <<macros, decls, imported, bodyCount, nIncl, entry, viaBridge>>

\* The guard test left out: the group is always processed.
Ifndef_Dropped ==
    /\ pc = "L6"
    /\ pc' = "L7"
    /\ UNCHANGED <<macros, decls, imported, bodyCount, nIncl, entry, viaBridge>>

\* Line 6, #ifndef SHERPAONNX_BRIDGING_HEADER_H_: the group up to the #endif
\* of line 11 is processed when the guard is not defined, skipped otherwise.
Ifndef ==
    /\ pc = "L6"
    /\ pc' = IF Defined(Guard) THEN "L11" ELSE "L7"
    /\ UNCHANGED <<macros, decls, imported, bodyCount, nIncl, entry, viaBridge>>

\* Line 7 left out: the guard is tested but never defined.
DefineGuard_Missing ==
    /\ pc = "L7"
    /\ pc' = "L9"
    /\ UNCHANGED <<macros, decls, imported, bodyCount, nIncl, entry, viaBridge>>

\* Line 7 followed by a definition of the header's own that overrides a macro
\* of the including code.
DefineGuard_Extra ==
    /\ pc = "L7"
    /\ macros' = [m \in MacroNames |->
                    IF m = Guard \/ m \in UserMacros THEN Empty ELSE macros[m]]
    /\ pc' = "L9"
    /\ UNCHANGED <<decls, imported, bodyCount, nIncl, entry, viaBridge>>

\* Line 7, #define SHERPAONNX_BRIDGING_HEADER_H_: the guard is defined, with
\* empty replacement text.
DefineGuard ==
    /\ pc = "L7"
    /\ macros' = [macros EXCEPT ![Guard] = Empty]
    /\ pc' = "L9"
    /\ UNCHANGED <<decls, imported, bodyCount, nIncl, entry, viaBridge>>

\* #include written for #import: the file is entered whether or not it has
\* been entered before.
ImportCApi_AsInclude ==
    /\ pc = "L9"
    /\ EnterCApi
    /\ viaBridge' = TRUE
    /\ pc' = "L11"
    /\ UNCHANGED <<nIncl, entry>>

\* Line 9, #import "sherpa-onnx/c-api/c-api.h": the file is entered unless the
\* preprocessor has entered it before in this translation unit.
ImportCApi ==
    /\ pc = "L9"
    /\ IF CApi \in imported
       THEN UNCHANGED <<macros, decls, imported, bodyCount>>
       ELSE EnterCApi
    /\ viaBridge' = TRUE
    /\ pc' = "L11"
    /\ UNCHANGED <<nIncl, entry>>

\* Line 11, #endif: closes the group; the end of the file follows.
Endif ==
    /\ pc = "L11"
    /\ pc' = "EOF"
    /\ UNCHANGED <<macros, decls, imported, bodyCount, nIncl, entry, viaBridge>>

\* End of the header: processing returns to the including code.
Return ==
    /\ pc = "EOF"
    /\ pc' = "tu"
    /\ UNCHANGED <<macros, decls, imported, bodyCount, nIncl, entry, viaBridge>>

Next ==
    \/ \E m \in {Guard} \cup UserMacros, v \in MacroValues : UserDefine(m, v)
    \/ \E d \in UserDecls : UserDeclare(d)
    \/ UserImport
    \/ IncludeHeader
    \/ Ifndef
    \/ DefineGuard
    \/ ImportCApi
    \/ Endif
    \/ Return

Spec == Init /\ [][Next]_vars

----------------------------------------------------------------------------
(* Properties *)

\* The guard was not defined when the current inclusion started.
EnteredUnguarded == entry.macros[Guard] = Undef

\* The current inclusion has been processed to the end of the header.
AtEnd == pc = "EOF"

\* C1: when the header is included with SHERPAONNX_BRIDGING_HEADER_H_ not yet
\* defined, then at the end of the inclusion c-api.h has been imported into
\* the translation unit and every declaration of c-api.h is visible.
C1_ExposesApi ==
    (AtEnd /\ EnteredUnguarded) =>
        /\ CApi \in imported
        /\ ApiDecls \subseteq decls
        /\ viaBridge

\* An inclusion that found the guard undefined and nothing of the API in the
\* translation unit has ended with the API visible.
C1_Witness ==
    /\ AtEnd
    /\ EnteredUnguarded
    /\ entry.imported = {}
    /\ entry.decls \cap ApiDecls = {}
    /\ ApiDecls \subseteq decls

\* C2: inclusion is idempotent. Every inclusion after the first ends in the
\* state it started in (same macros, same visible declarations, same files
\* entered), so any number of inclusions leaves what the first one left; and
\* the body of c-api.h is processed at most once in the translation unit.
C2_Idempotent ==
    /\ bodyCount <= 1
    /\ (AtEnd /\ nIncl >= 2) => Snapshot = entry

\* A repeated inclusion has ended after an earlier one imported c-api.h.
C2_Witness ==
    /\ AtEnd
    /\ nIncl >= 2
    /\ viaBridge
    /\ bodyCount = 1
    /\ ApiDecls \subseteq decls

\* The macros whose table entry differs between two tables.
Changed(old, new) == {m \in MacroNames : old[m] # new[m]}

\* C3: the header adds nothing of its own. A step of the header never changes
\* a macro that is defined nor removes a declaration; a directive other than
\* the #import of line 9 changes no declaration and no macro but the guard;
\* the #import changes only names of c-api.h. So at the end of an inclusion
\* the names added since it started are the guard and names of c-api.h.
C3_AddsOnlyGuard ==
    /\ [][pc # "tu" =>
            /\ \A m \in MacroNames : Defined(m) => macros'[m] = macros[m]
            /\ decls \subseteq decls'
            /\ IF pc = "L9"
               THEN /\ Changed(macros, macros') \subseteq ApiMacros
                    /\ (decls' \ decls) \subseteq ApiDecls
               ELSE /\ Changed(macros, macros') \subseteq {Guard}
                    /\ decls' = decls]_vars
    /\ [](AtEnd =>
            /\ Changed(entry.macros, macros) \subseteq ({Guard} \cup ApiMacros)
            /\ (decls \ entry.decls) \subseteq ApiDecls
            /\ entry.decls \subseteq decls
            /\ \A m \in MacroNames :
                 entry.macros[m] # Undef => macros[m] = entry.macros[m])

\* An inclusion that defined the guard and imported c-api.h has ended in a
\* translation unit that had a macro and declarations of its own before it.
C3_Witness ==
    /\ AtEnd
    /\ EnteredUnguarded
    /\ entry.macros["USER_MACRO"] = One
    /\ entry.decls = UserDecls
    /\ macros[Guard] = Empty
    /\ decls = UserDecls \cup ApiDecls

\* C4: whenever c-api.h has been imported through the header the guard is
\* defined; the guard is already defined when line 9 is about to be
\* processed; and once defined the guard stays defined.
C4_GuardBeforeImport ==
    /\ []((viaBridge \/ pc = "L9") => Defined(Guard))
    /\ [][Defined(Guard) => macros'[Guard] # Undef]_vars

\* A later inclusion is under way after the import through the header.
C4_Witness ==
    /\ viaBridge
    /\ nIncl >= 2
    /\ pc = "L11"
    /\ Defined(Guard)

\* C5: when the guard is already defined as the header is included, the
\* inclusion changes nothing: the #import of line 9 is not performed by it,
\* no macro is defined, no declaration becomes visible.
C5_GuardedIsNoOp ==
    /\ (pc \in {"L7", "L9"}) => EnteredUnguarded
    /\ (AtEnd /\ ~EnteredUnguarded) => Snapshot = entry

\* The first inclusion found the guard defined by the including code and has
\* ended with the API not visible.
C5_Witness ==
    /\ AtEnd
    /\ nIncl = 1
    /\ entry.macros[Guard] = One
    /\ ~viaBridge
    /\ imported = {}
    /\ decls \cap ApiDecls = {}

====
